---- MODULE Spec2Model ----
(***************************************************************************)
(* A model of the point-cloud renderer of lidar-rs: the main-world point   *)
(* cloud entities, the render-world reconcile (extract_point_clouds) and   *)
(* upload (upload_point_clouds) stages over the point arena                *)
(* (PointCloudBuffers), and the order-independent-transparency node.       *)
(*                                                                         *)
(* The arena's allocator is the external crate offset_allocator; its       *)
(* source is not part of the repository.  It is modelled here by the       *)
(* contract the specification gives for it (section 4.1): allocate finds a *)
(* free gap of at least n, returns its prefix and re-inserts the           *)
(* remainder; free re-inserts the range and coalesces it with adjacent     *)
(* free ranges.  Which fitting gap is taken is left open (any of them).    *)
(***************************************************************************)
EXTENDS Integers, Sequences, FiniteSets, TLC

\* ---------------------------------------------------------------- bounds
\* The arena's capacity in point samples (1024 * 1024 * 16 in the code), scaled down.
Capacity == 2
\* The longest point sequence an entity holds.
MaxPoints == 1
\* The allocator's node pool (128 * 1024 in the crate), scaled down.
MaxAllocs == 4

\* The most batch sets the phase of a camera that stays inactive gathers.
MaxBatchSets == 2

\* The most draw entries a view's phase holds.
MaxEntries == 3

\* size_of::<Vec4>(): the bytes of one point sample.
SampleBytes == 16

\* The point cloud entities of the main world.
Entities == {1, 2}

\* The Camera3d entities (the views).
Views == {1, 2}

\* SpatialBundle::INHERITED_IDENTITY: the transform an entity is spawned with.
Identity == 0

\* The transforms an entity takes.
TransformValues == {Identity, 1}

LastEntity == CHOOSE e \in Entities : \A x \in Entities : x <= e

VARIABLES
    exists,         \* main world: the entity has the PointCloud components
    visible,        \* main world: ViewVisibility of the entity
    visibleIn,      \* main world: the views whose VisibleEntities hold the entity
    points,         \* main world: PointCloud.points of the entity
    changed,        \* main world: PointCloud changed since the last extract
    instances,      \* render world: PointCloudInstances
    pending,        \* render world: PendingPointClouds
    allocator,      \* render world: PointCloudBuffers.allocator (its regions, in address order)
    point_buffer,   \* render world: the bytes of PointCloudBuffers.point_buffer
    live,           \* history: the allocations returned by allocate and not yet freed
    stage,          \* the frame's position: "update", "upload"
    lastUpload,     \* history: what the last step of upload_point_clouds did
    panicked,       \* the render world panicked
    oitStage,       \* the view's position in the frame: "done", "queue", "prepare", "prepare_texture", "graph", "copy"
    roundMode,      \* the rounding the device applies when it stores to a 16-bit float target
    phasePresent,   \* ViewBinnedRenderPhases<OrderIndependentTransparent3d> has a phase for the view
    phaseItems,     \* the draw entries of the view's phase, in submission order
    copyPipelineReady, \* PipelineCache::get_render_pipeline(copy_pipeline.0) is Some
    accum,          \* the TransparentAccumulationTexture of the view, at one pixel
    target,         \* the view's main colour target (the final frame target), at one pixel
    commands,       \* history: the render commands the copy node recorded in this frame
    frameStage,     \* the frame's position among the systems that assemble and draw
    transform,      \* main world: GlobalTransform of the entity
    cameras,        \* main world: the Camera3d entities ("none", "inactive", "active")
    transparent_phases, \* render world: ViewBinnedRenderPhases<OrderIndependentTransparent3d>
    indirect,       \* render world: PointCloudIndirect, the values not yet written
    indirect_buffer, \* render world: the device buffer of PointCloudIndirect
    batched_instance_buffer, \* render world: BatchedInstanceBuffer<PointCloudUniform>
    material_phases, \* render world: ViewBinnedRenderPhases<transparency::OrderIndependentTransparent3d>
    draws,          \* history: the draw descriptors each view's pass executed in this frame
    arcs,           \* the heap: the Arc<Vec<Vec4>> allocations, their strong count and contents
    pointsArc,      \* main world: the Arc that PointCloud.points of the entity points to
    pendingArcs     \* render world: PendingPointClouds as the Arcs it holds

cloudVars == <<exists, visible, visibleIn, points, changed, instances, pending, allocator,
               point_buffer, live, stage, lastUpload, panicked>>

oitVars == <<oitStage, roundMode, phasePresent, phaseItems, copyPipelineReady, accum, target, commands>>

frameVars == <<frameStage, transform, cameras, transparent_phases, indirect,
               indirect_buffer, batched_instance_buffer, material_phases, draws>>

arcVars == <<arcs, pointsArc, pendingArcs>>

vars == <<exists, visible, visibleIn, points, changed, instances, pending, allocator,
          point_buffer, live, stage, lastUpload, panicked,
          oitStage, roundMode, phasePresent, phaseItems, copyPipelineReady, accum, target, commands,
          frameStage, transform, cameras, transparent_phases, indirect,
          indirect_buffer, batched_instance_buffer, material_phases, draws,
          arcs, pointsArc, pendingArcs>>

\* ------------------------------------------------------------- allocator
\* Option<Allocation>: None, or Some(Allocation {offset, metadata}).
None == [some |-> FALSE, offset |-> 0, metadata |-> 0]

Some(offset, metadata) == [some |-> TRUE, offset |-> offset, metadata |-> metadata]

\* Allocator::new(capacity): one free region covering the arena.
AllocatorNew(capacity) ==
    << [offset |-> 0, size |-> capacity, used |-> FALSE, id |-> 0] >>

UsedIds(a) == {a[i].id : i \in {j \in DOMAIN a : a[j].used}}

\* The node index a new allocation gets.
NextId(a) == CHOOSE k \in 1..MaxAllocs : k \notin UsedIds(a) /\ \A j \in 1..(k - 1) : j \in UsedIds(a)

\* The free regions a request of n can be served from.
Fits(a, n) == {i \in DOMAIN a : ~a[i].used /\ a[i].size >= n}

\* allocate returns None when the node pool is used up or no gap fits.
AllocatorCanAllocate(a, n) == Len(a) < MaxAllocs - 1 /\ Fits(a, n) # {}

\* allocate(n) from the free region at index gap: the prefix becomes the
\* allocation, the remainder (if any) stays free.
AllocatorAllocate(a, n, gap) ==
    LET r == a[gap]
        node == [offset |-> r.offset, size |-> n, used |-> TRUE, id |-> NextId(a)]
        rest == IF r.size > n
                THEN << [offset |-> r.offset + n, size |-> r.size - n, used |-> FALSE, id |-> 0] >>
                ELSE << >>
    IN  [regions |-> SubSeq(a, 1, gap - 1) \o <<node>> \o rest \o SubSeq(a, gap + 1, Len(a)),
         allocation |-> Some(node.offset, node.id)]

\* free(allocation): the region becomes free and is merged with its free neighbours.
AllocatorFree(a, allocation) ==
    LET i == CHOOSE j \in DOMAIN a : a[j].used /\ a[j].id = allocation.metadata
        lo == IF i > 1 /\ ~a[i - 1].used THEN i - 1 ELSE i
        hi == IF i < Len(a) /\ ~a[i + 1].used THEN i + 1 ELSE i
        merged == [offset |-> a[lo].offset,
                   size |-> a[hi].offset + a[hi].size - a[lo].offset,
                   used |-> FALSE, id |-> 0]
    IN  SubSeq(a, 1, lo - 1) \o <<merged>> \o SubSeq(a, hi + 1, Len(a))

\* ---------------------------------------------------------- point buffer
\* The buffer is kept per point-sample slot: slot s is the bytes
\* [s * SampleBytes, (s + 1) * SampleBytes).  A slot holds Zero (never
\* written), Sample(v) (exactly the bytes of the sample v, in place), or Torn
\* (bytes of a write that did not start on a slot boundary: no sample's image).
Zero == [kind |-> "zero", value |-> 0]

Sample(v) == [kind |-> "sample", value |-> v]

Torn == [kind |-> "torn", value |-> 0]

\* bytemuck::cast_slice(points): the bytes of the slice, SampleBytes per sample.
CastSlice(pts) == [bytes |-> Len(pts) * SampleBytes, samples |-> pts]

\* RenderQueue::write_buffer(buffer, offset, data): offset is in bytes.
WriteBuffer(buf, byteOffset, data) ==
    LET firstSlot == byteOffset \div SampleBytes
        lastSlot == (byteOffset + data.bytes - 1) \div SampleBytes
    IN  [s \in DOMAIN buf |->
            IF data.bytes = 0 \/ s < firstSlot \/ s > lastSlot THEN buf[s]
            ELSE IF byteOffset % SampleBytes = 0 THEN Sample(data.samples[s - firstSlot + 1])
            ELSE Torn]

\* The slots of n point samples starting at point sample index `first`.
ReadSamples(buf, first, n) == [k \in 1..n |-> buf[first + k - 1]]

\* PointCloudBuffers::with_capacity: a zeroed buffer of capacity * 16 bytes.
NewPointBuffer(capacity) == [s \in 0..((capacity * SampleBytes) \div SampleBytes - 1) |-> Zero]

\* The bytes PointCloudBuffers::allocate hands to write_buffer for an
\* allocation: from allocation.offset on, the bytes of the slice.
WrittenBytes(allocation, pts) == [offset |-> allocation.offset, bytes |-> CastSlice(pts).bytes]

\* An allocate that reserves one sample less than it writes.
PointCloudBuffers_allocate_short(a, buf, lv, pts, gap) ==
    LET got == AllocatorAllocate(a, IF Len(pts) > 0 THEN Len(pts) - 1 ELSE 0, gap)
    IN  [allocator |-> got.regions,
         point_buffer |-> WriteBuffer(buf, WrittenBytes(got.allocation, pts).offset, CastSlice(pts)),
         live |-> lv \cup {[metadata |-> got.allocation.metadata,
                            offset |-> got.allocation.offset,
                            len |-> Len(pts), data |-> pts]},
         allocation |-> got.allocation]

\* PointCloudBuffers::allocate, when the allocator can serve the request.
PointCloudBuffers_allocate(a, buf, lv, pts, gap) ==
    LET got == AllocatorAllocate(a, Len(pts), gap)
    IN  [allocator |-> got.regions,
         point_buffer |-> WriteBuffer(buf, WrittenBytes(got.allocation, pts).offset, CastSlice(pts)),
         live |-> lv \cup {[metadata |-> got.allocation.metadata,
                            offset |-> got.allocation.offset,
                            len |-> Len(pts), data |-> pts]},
         allocation |-> got.allocation]

\* A failing allocate that clears the start of the buffer before giving up.
PointCloudBuffers_allocate_failed_clears(a, buf, lv) ==
    [allocator |-> a,
     point_buffer |-> [s \in DOMAIN buf |-> IF s = 0 THEN Zero ELSE buf[s]],
     live |-> lv]

\* PointCloudBuffers::allocate, when the allocator returns None: the expect
\* panics before anything is written.
PointCloudBuffers_allocate_failed(a, buf, lv) ==
    [allocator |-> a, point_buffer |-> buf, live |-> lv]

\* A free that forgets the range instead of returning it to the allocator.
PointCloudBuffers_free_forgets(a, lv, allocation) ==
    [allocator |-> a,
     live |-> {l \in lv : l.metadata # allocation.metadata}]

\* A free that releases every range of the arena.
PointCloudBuffers_free_everything(a, lv, allocation) ==
    [allocator |-> AllocatorNew(Capacity), live |-> {}]

\* PointCloudBuffers::free.
PointCloudBuffers_free(a, lv, allocation) ==
    [allocator |-> AllocatorFree(a, allocation),
     live |-> {l \in lv : l.metadata # allocation.metadata}]

\* The live allocation with the node index `metadata`.
LiveEntry(lv, metadata) == CHOOSE l \in lv : l.metadata = metadata

\* A push that counts one vertex per point instead of the six of a quad.
PointCloudIndirect_push_one_vertex(values, instance) ==
    Append(values, [vertex_count |-> instance.num_points,
                    instance_count |-> 1,
                    first_vertex |-> 0,
                    first_instance |-> Len(values)])

\* PointCloudIndirect::push: the draw descriptor of an instance, appended to
\* the CPU side of the indirect buffer.
PointCloudIndirect_push(values, instance) ==
    Append(values, [vertex_count |-> instance.num_points * 6,
                    instance_count |-> 1,
                    first_vertex |-> 0,
                    first_instance |-> Len(values)])

\* No step of upload_point_clouds has run in this frame.
NoUpload == [op |-> "none", entity |-> 0, oldLen |-> 0]

\* ------------------------------------------------- accumulation surfaces
\* The surfaces are Rgba16Float and R16Float.  A stored value is kept as an
\* integer count of the smallest positive 16-bit float, 2^-SubnormalExp; the
\* values the format can hold are then the integers m * 2^e with
\* m < 2^SignificandBits.  Alpha is kept in AlphaDen-ths.
SignificandBits == 11

SubnormalExp == 24

AlphaDen == 16

RECURSIVE Pow2(_)
Pow2(n) == IF n = 0 THEN 1 ELSE 2 * Pow2(n - 1)

\* The number of binary digits of x.
RECURSIVE BitLen(_)
BitLen(x) == IF x = 0 THEN 0 ELSE 1 + BitLen(x \div 2)

\* The value 1.0.
One == Pow2(SubnormalExp)

\* The distance between neighbouring values of the format at x.
Ulp(x) == IF BitLen(x) <= SignificandBits THEN 1 ELSE Pow2(BitLen(x) - SignificandBits)

\* The roundings a device may apply when it stores to a 16-bit float target.
RoundModes == {"nearest_even", "toward_zero"}

\* num / den stored to a 16-bit float target.
Round(num, den, mode) ==
    LET q == num \div den
        step == Ulp(q)
        lo == (q \div step) * step
        rest == num - lo * den
        up == IF mode = "toward_zero" THEN FALSE
              ELSE IF 2 * rest # step * den THEN 2 * rest > step * den
              ELSE (lo \div step) % 2 = 1
    IN  [value |-> IF rest = 0 THEN lo ELSE IF up THEN lo + step ELSE lo,
         exact |-> rest = 0]

\* The blend of the colour target with standard alpha compositing.
blend_over ==
    [src_factor |-> "SrcAlpha", dst_factor |-> "OneMinusSrcAlpha", operation |-> "Add"]

\* PointCloudPipeline::specialize: the blend of the colour target.
blend_add ==
    [src_factor |-> "One", dst_factor |-> "One", operation |-> "Add"]

\* PointCloudPipeline::specialize: the blend of the coverage target.
blend_dissolve ==
    [src_factor |-> "Zero", dst_factor |-> "OneMinusSrcAlpha", operation |-> "Add"]

\* A blend factor, in AlphaDen-ths, for a fragment of alpha `alpha`.
BlendFactor(factor, alpha) ==
    CASE factor = "Zero" -> 0
      [] factor = "One" -> AlphaDen
      [] factor = "SrcAlpha" -> alpha
      [] factor = "OneMinusSrcAlpha" -> AlphaDen - alpha

\* The fixed-function blend of one channel: src * src_factor + dst * dst_factor,
\* stored to the target.
ApplyBlend(component, src, dst, alpha, mode) ==
    Round(src * BlendFactor(component.src_factor, alpha)
              + dst * BlendFactor(component.dst_factor, alpha),
          AlphaDen, mode)

\* prepare_transparent_accumulation_texture: the clear values of the
\* attachments (LinearRgba::NONE, LinearRgba::WHITE).
ClearSurfaces == [colour |-> 0, coverage |-> One, exact |-> TRUE]

\* The surfaces before the first pass of the frame has cleared them.
Uncleared == [colour |-> -1, coverage |-> -1, exact |-> TRUE]

\* One fragment of a draw entry blended into both targets.
BlendFragment(surf, f, mode) ==
    LET c == ApplyBlend(blend_add, f.colour, surf.colour, f.alpha, mode)
        v == ApplyBlend(blend_dissolve, f.alpha * (One \div AlphaDen), surf.coverage, f.alpha, mode)
    IN  [colour |-> c.value, coverage |-> v.value,
         exact |-> surf.exact /\ c.exact /\ v.exact]

\* transparent_phase.render over the cleared attachments: the entries are
\* drawn in the order of the phase.
RECURSIVE Accumulate(_, _, _)
Accumulate(surf, items, mode) ==
    IF items = << >> THEN surf
    ELSE Accumulate(BlendFragment(surf, Head(items), mode), Tail(items), mode)

\* The fragments of the draw entries at the pixel: a colour channel and an alpha.
Fragments == [colour : {Pow2(SubnormalExp - SignificandBits), One}, alpha : {1, AlphaDen \div 2, AlphaDen}]

RECURSIVE SeqsUpTo(_, _)
SeqsUpTo(S, n) ==
    IF n = 0 THEN {<< >>}
    ELSE LET shorter == SeqsUpTo(S, n - 1)
         IN  shorter \cup {Append(q, x) : q \in {r \in shorter : Len(r) = n - 1}, x \in S}

Cmd(pass, cmd) == [pass |-> pass, cmd |-> cmd]

\* A node that issues the resolve draw while the accumulate pass is still open.
NodeCommands_resolve_in_accumulate(items, ready) ==
    <<Cmd("accumulate", "begin")>>
        \o [i \in 1..Len(items) |-> Cmd("accumulate", "draw")]
        \o <<Cmd("copy", "begin")>>
        \o (IF ready THEN <<Cmd("copy", "draw")>> ELSE << >>)
        \o <<Cmd("accumulate", "end"), Cmd("copy", "end")>>

\* OrderIndependentCopyNode::run for a phase that is not empty: the render
\* commands it records.
NodeCommands(items, ready) ==
    <<Cmd("accumulate", "begin")>>
        \o [i \in 1..Len(items) |-> Cmd("accumulate", "draw")]
        \o <<Cmd("accumulate", "end")>>
        \o <<Cmd("copy", "begin")>>
        \o (IF ready THEN <<Cmd("copy", "draw")>> ELSE << >>)
        \o <<Cmd("copy", "end")>>

\* ------------------------------------------------------------ main world

\* ------------------------------------------------------- resolve pass
\* The largest value of a channel of the Rgba8UnormSrgb target.
TargetMax == 255

\* The colours the earlier passes may have left at the pixel.
TargetValues == {0, 64, TargetMax}

\* shaders/oit_blit.wgsl, fs_main: the colour is the accumulated colour
\* weighted by the accumulated opacity, the alpha is the accumulated
\* coverage (what is left of the background), in AlphaDen-ths.
oit_blit(surf) ==
    LET cov == IF surf.coverage < 0 THEN 0
               ELSE IF surf.coverage > One THEN One ELSE surf.coverage
        a == (cov * AlphaDen) \div One
        c == surf.colour \div (One \div TargetMax)
        w == AlphaDen - a
        n == IF w = 0 THEN 0 ELSE (c * AlphaDen) \div w
    IN  [colour |-> IF n > TargetMax THEN TargetMax ELSE n, alpha |-> a]

\* The blend of OrderIndependentTransparencyPipeline: OneMinusSrcAlpha * src
\* + SrcAlpha * dst, stored to the 8-bit target.
ResolveBlend(src, alpha, dst) ==
    LET v == ((AlphaDen - alpha) * src + alpha * dst) \div AlphaDen
    IN  IF v > TargetMax THEN TargetMax ELSE v

\* The full-screen draw of the copy pass over the accumulation surfaces.
Resolve(surf, dst) ==
    LET out == oit_blit(surf)
    IN  ResolveBlend(out.colour, out.alpha, dst)

\* A node that takes every phase for non-empty.
PhaseIsEmpty_never(items) == FALSE

\* transparent_phase.is_empty().
PhaseIsEmpty(items) == items = << >>

\* The sample a scan of entity e pushes.
ScanSample(e) == e

\* ------------------------------------------------------ shared sequences
\* PointCloud.points is an Arc<Vec<Vec4>>.  The heap holds a slot per Arc
\* allocation: an entity's current sequence and the one a snapshot may
\* still hold.
ArcIds == 1..(2 * Cardinality(Entities))

\* A heap slot that holds no allocation.
NoArc == [strong |-> 0, data |-> << >>]

\* Arc::new(data) in the first free slot.
Arc_new(heap, data) ==
    LET id == CHOOSE k \in ArcIds :
                  heap[k].strong = 0 /\ \A j \in ArcIds : j < k => heap[j].strong > 0
    IN  [arcs |-> [heap EXCEPT ![id] = [strong |-> 1, data |-> data]], id |-> id]

\* Arc::clone: one more strong reference to the same allocation.
Arc_clone(heap, id) == [heap EXCEPT ![id].strong = @ + 1]

\* Dropping an Arc: the allocation is released with its last reference.
Arc_drop(heap, id) ==
    [heap EXCEPT ![id] = IF @.strong = 1 THEN NoArc ELSE [@ EXCEPT !.strong = @ - 1]]

\* A make_mut that hands out the shared allocation itself.
Arc_make_mut_in_place(heap, id) == [arcs |-> heap, id |-> id]

\* Arc::make_mut: the allocation itself when this is its only reference,
\* otherwise a new allocation with a copy of the contents, which takes the
\* place of the reference that was held.
Arc_make_mut(heap, id) ==
    IF heap[id].strong = 1 THEN [arcs |-> heap, id |-> id]
    ELSE Arc_new(Arc_drop(heap, id), heap[id].data)

\* The main world after startup: every PointCloud is PointCloud::default(),
\* an Arc of its own over an empty sequence; nothing is pending.
InitArc ==
    /\ arcs = [k \in ArcIds |-> IF k \in Entities THEN [strong |-> 1, data |-> << >>] ELSE NoArc]
    /\ pointsArc = [e \in Entities |-> e]
    /\ pendingArcs = << >>

InitCloud ==
    /\ exists = [e \in Entities |-> FALSE]
    /\ visible = [e \in Entities |-> FALSE]
    /\ visibleIn = [e \in Entities |-> {}]
    /\ points = [e \in Entities |-> << >>]
    /\ changed = [e \in Entities |-> FALSE]
    /\ instances = << >>
    /\ pending = << >>
    /\ allocator = AllocatorNew(Capacity)
    /\ point_buffer = NewPointBuffer(Capacity)
    /\ live = {}
    /\ stage = "update"
    /\ lastUpload = NoUpload
    /\ panicked = FALSE

\* The main world after startup and the render world's resources after
\* PointCloudPlugin::finish: no camera yet, nothing queued, batched or drawn.
InitFrame ==
    /\ frameStage = "update"
    /\ transform = [e \in Entities |-> Identity]
    /\ cameras = [v \in Views |-> "none"]
    /\ transparent_phases = << >>
    /\ indirect = << >>
    /\ indirect_buffer = << >>
    /\ batched_instance_buffer = << >>
    /\ material_phases = << >>
    /\ draws = << >>

InitView ==
    /\ oitStage = "done"
    /\ phasePresent = FALSE
    /\ phaseItems = << >>
    /\ copyPipelineReady = FALSE
    /\ accum = Uncleared
    /\ target = 0
    /\ commands = << >>

Init == InitCloud /\ InitView /\ InitFrame /\ InitArc /\ roundMode = "nearest_even"

InitOIT == InitCloud /\ InitView /\ InitFrame /\ InitArc /\ roundMode \in RoundModes

renderVars == <<instances, pending, allocator, point_buffer, live, stage, lastUpload, panicked>>

\* A point cloud entity is spawned (PointCloud::default(): no points).
Spawn(e) ==
    /\ stage = "update" /\ ~panicked
    /\ ~exists[e]
    /\ exists' = [exists EXCEPT ![e] = TRUE]
    /\ visible' = [visible EXCEPT ![e] = TRUE]
    /\ visibleIn' = [visibleIn EXCEPT ![e] = Views]
    /\ changed' = [changed EXCEPT ![e] = TRUE]
    /\ UNCHANGED <<points, renderVars, oitVars, frameVars, arcVars>>

Despawn(e) ==
    /\ stage = "update" /\ ~panicked
    /\ exists[e]
    /\ exists' = [exists EXCEPT ![e] = FALSE]
    /\ visible' = [visible EXCEPT ![e] = FALSE]
    /\ visibleIn' = [visibleIn EXCEPT ![e] = {}]
    /\ changed' = [changed EXCEPT ![e] = FALSE]
    /\ points' = [points EXCEPT ![e] = << >>]
    /\ UNCHANGED <<renderVars, oitVars, frameVars, arcVars>>

\* check_visibility recomputes the entity's ViewVisibility: the entity has
\* come into every view, or has left every view.
SetVisibility(e) ==
    /\ stage = "update" /\ ~panicked
    /\ exists[e]
    /\ visible' = [visible EXCEPT ![e] = ~visible[e]]
    /\ visibleIn' = [visibleIn EXCEPT ![e] = IF visible[e] THEN {} ELSE Views]
    /\ UNCHANGED <<exists, points, changed, renderVars, oitVars, frameVars, arcVars>>

\* scan: Arc::make_mut through the Mut<PointCloud> marks the component changed,
\* and a ray that hits pushes a point.
Scan(e) ==
    /\ stage = "update" /\ ~panicked
    /\ exists[e]
    /\ \E hit \in BOOLEAN :
          /\ hit => Len(points[e]) < MaxPoints
          /\ points' = [points EXCEPT ![e] = IF hit THEN Append(@, ScanSample(e)) ELSE @]
    /\ changed' = [changed EXCEPT ![e] = TRUE]
    /\ UNCHANGED <<exists, visible, visibleIn, renderVars, oitVars, frameVars, arcVars>>

\* clear_scan.
ClearScan(e) ==
    /\ stage = "update" /\ ~panicked
    /\ exists[e]
    /\ points' = [points EXCEPT ![e] = << >>]
    /\ changed' = [changed EXCEPT ![e] = TRUE]
    /\ UNCHANGED <<exists, visible, visibleIn, renderVars, oitVars, frameVars, arcVars>>

\* Option<&PreviousGlobalTransform> of the query item: no system adds the
\* component to a point cloud entity (it has no mesh).
PreviousGlobalTransform(e) == [some |-> FALSE, value |-> Identity]

\* Option::unwrap_or.
UnwrapOr(option, default) == IF option.some THEN option.value ELSE default

\* Affine3 from GlobalTransform::affine(): the 3x3 matrix and the translation.
Affine3(t) == [matrix3 |-> t, translation |-> t]

\* Affine3::to_transpose: the three rows of the transposed 3x4 matrix.
to_transpose(a) == <<[xyz |-> a.matrix3, w |-> a.translation],
                    [xyz |-> a.matrix3, w |-> a.translation],
                    [xyz |-> a.matrix3, w |-> a.translation]>>

\* A reconcile that keeps the records of destroyed objects.
Retain_keeps_all(insts) == insts

\* ----------------------------------------------------------- render world
\* point_cloud_instances.retain(|entity, _| clouds_query.contains(*entity)).
Retain(insts) ==
    [e \in {x \in DOMAIN insts : exists[x]} |-> insts[e]]

\* An extract that leaves the point count of an existing record as it was.
ExtractEntity_stale_count(st, e) ==
    IF ~visible[e]
    THEN [instances |-> [x \in DOMAIN st.instances \ {e} |-> st.instances[x]],
          pending |-> st.pending]
    ELSE LET previous_transform == UnwrapOr(PreviousGlobalTransform(e), transform[e])
             is_new == e \notin DOMAIN st.instances
             inst == IF is_new
                     THEN [world_from_local |-> Affine3(transform[e]),
                           previous_world_from_local |-> Affine3(previous_transform),
                           num_points |-> Len(points[e]), allocation |-> None]
                     ELSE [st.instances[e] EXCEPT
                              !.world_from_local = Affine3(transform[e]),
                              !.previous_world_from_local = Affine3(previous_transform)]
         IN  [instances |-> [x \in DOMAIN st.instances \cup {e} |->
                                IF x = e THEN inst ELSE st.instances[x]],
              pending |-> IF is_new \/ changed[e]
                          THEN Append(st.pending, [entity |-> e, points |-> points[e]])
                          ELSE st.pending]

\* An extract that queues an object only when its PointCloud changed, new
\* record or not.
ExtractEntity_ignores_new(st, e) ==
    IF ~visible[e]
    THEN [instances |-> [x \in DOMAIN st.instances \ {e} |-> st.instances[x]],
          pending |-> st.pending]
    ELSE LET previous_transform == UnwrapOr(PreviousGlobalTransform(e), transform[e])
             is_new == e \notin DOMAIN st.instances
             inst == IF is_new
                     THEN [world_from_local |-> Affine3(transform[e]),
                           previous_world_from_local |-> Affine3(previous_transform),
                           num_points |-> Len(points[e]), allocation |-> None]
                     ELSE [st.instances[e] EXCEPT
                              !.world_from_local = Affine3(transform[e]),
                              !.previous_world_from_local = Affine3(previous_transform),
                              !.num_points = Len(points[e])]
         IN  [instances |-> [x \in DOMAIN st.instances \cup {e} |->
                                IF x = e THEN inst ELSE st.instances[x]],
              pending |-> IF changed[e]
                          THEN Append(st.pending, [entity |-> e, points |-> points[e]])
                          ELSE st.pending]

\* An extract that queues a new record with an empty sequence instead of
\* the object's points.
ExtractEntity_new_without_points(st, e) ==
    IF ~visible[e]
    THEN [instances |-> [x \in DOMAIN st.instances \ {e} |-> st.instances[x]],
          pending |-> st.pending]
    ELSE LET previous_transform == UnwrapOr(PreviousGlobalTransform(e), transform[e])
             is_new == e \notin DOMAIN st.instances
             inst == IF is_new
                     THEN [world_from_local |-> Affine3(transform[e]),
                           previous_world_from_local |-> Affine3(previous_transform),
                           num_points |-> Len(points[e]), allocation |-> None]
                     ELSE [st.instances[e] EXCEPT
                              !.world_from_local = Affine3(transform[e]),
                              !.previous_world_from_local = Affine3(previous_transform),
                              !.num_points = Len(points[e])]
         IN  [instances |-> [x \in DOMAIN st.instances \cup {e} |->
                                IF x = e THEN inst ELSE st.instances[x]],
              pending |-> IF is_new \/ changed[e]
                          THEN Append(st.pending,
                                      [entity |-> e,
                                       points |-> IF is_new THEN << >> ELSE points[e]])
                          ELSE st.pending]

\* An extract that queues every visible object, changed or not.
ExtractEntity_queues_unchanged(st, e) ==
    IF ~visible[e]
    THEN [instances |-> [x \in DOMAIN st.instances \ {e} |-> st.instances[x]],
          pending |-> st.pending]
    ELSE LET previous_transform == UnwrapOr(PreviousGlobalTransform(e), transform[e])
             is_new == e \notin DOMAIN st.instances
             inst == IF is_new
                     THEN [world_from_local |-> Affine3(transform[e]),
                           previous_world_from_local |-> Affine3(previous_transform),
                           num_points |-> Len(points[e]), allocation |-> None]
                     ELSE [st.instances[e] EXCEPT
                              !.world_from_local = Affine3(transform[e]),
                              !.previous_world_from_local = Affine3(previous_transform),
                              !.num_points = Len(points[e])]
         IN  [instances |-> [x \in DOMAIN st.instances \cup {e} |->
                                IF x = e THEN inst ELSE st.instances[x]],
              pending |-> Append(st.pending, [entity |-> e, points |-> points[e]])]

\* One iteration of the loop of extract_point_clouds, for entity e of the query.
\* st = [instances, pending].
ExtractEntity(st, e) ==
    IF ~visible[e]
    THEN [instances |-> [x \in DOMAIN st.instances \ {e} |-> st.instances[x]],
          pending |-> st.pending]
    ELSE LET previous_transform == UnwrapOr(PreviousGlobalTransform(e), transform[e])
             is_new == e \notin DOMAIN st.instances
             inst == IF is_new
                     THEN [world_from_local |-> Affine3(transform[e]),
                           previous_world_from_local |-> Affine3(previous_transform),
                           num_points |-> Len(points[e]), allocation |-> None]
                     ELSE [st.instances[e] EXCEPT
                              !.world_from_local = Affine3(transform[e]),
                              !.previous_world_from_local = Affine3(previous_transform),
                              !.num_points = Len(points[e])]
         IN  [instances |-> [x \in DOMAIN st.instances \cup {e} |->
                                IF x = e THEN inst ELSE st.instances[x]],
              pending |-> IF is_new \/ changed[e]
                          THEN Append(st.pending, [entity |-> e, points |-> points[e]])
                          ELSE st.pending]

\* The loop of extract_point_clouds over the query, from entity e on.
RECURSIVE ExtractLoop(_, _)
ExtractLoop(st, e) ==
    IF e > LastEntity THEN st
    ELSE ExtractLoop(IF e \in Entities /\ exists[e] THEN ExtractEntity(st, e) ELSE st, e + 1)

\* extract_point_clouds; the extract system has then seen every change.
Extract ==
    /\ stage = "update" /\ ~panicked
    /\ LET st == ExtractLoop([instances |-> Retain(instances), pending |-> pending], 1)
       IN  /\ instances' = st.instances
           /\ pending' = st.pending
    /\ changed' = [e \in Entities |-> FALSE]
    /\ stage' = "upload"
    /\ UNCHANGED <<exists, visible, visibleIn, points, allocator, point_buffer, live, lastUpload, panicked,
                   oitVars, frameVars, arcVars>>

\* One iteration of the drain loop of upload_point_clouds.
UploadStep ==
    /\ stage = "upload" /\ ~panicked
    /\ pending # << >>
    /\ LET item == Head(pending)
           e == item.entity
       IN  /\ pending' = Tail(pending)
           /\ IF e \notin DOMAIN instances
              THEN /\ lastUpload' = [op |-> "skipped", entity |-> e, oldLen |-> 0]
                   /\ UNCHANGED <<instances, allocator, point_buffer, live, panicked>>
              ELSE LET old == instances[e].allocation
                       oldLen == IF old.some THEN LiveEntry(live, old.metadata).len ELSE 0
                       freed == IF old.some
                                THEN PointCloudBuffers_free(allocator, live, old)
                                ELSE [allocator |-> allocator, live |-> live]
                   IN  IF AllocatorCanAllocate(freed.allocator, Len(item.points))
                       THEN \E gap \in Fits(freed.allocator, Len(item.points)) :
                               LET got == PointCloudBuffers_allocate(
                                              freed.allocator, point_buffer, freed.live,
                                              item.points, gap)
                               IN  /\ instances' = [instances EXCEPT ![e].allocation = got.allocation]
                                   /\ allocator' = got.allocator
                                   /\ point_buffer' = got.point_buffer
                                   /\ live' = got.live
                                   /\ lastUpload' = [op |-> IF old.some THEN "reallocated" ELSE "allocated",
                                                     entity |-> e, oldLen |-> oldLen]
                                   /\ UNCHANGED panicked
                       ELSE LET failed == PointCloudBuffers_allocate_failed(
                                              freed.allocator, point_buffer, freed.live)
                            IN  /\ instances' = [instances EXCEPT ![e].allocation = None]
                                /\ allocator' = failed.allocator
                                /\ point_buffer' = failed.point_buffer
                                /\ live' = failed.live
                                /\ panicked' = TRUE
                                /\ lastUpload' = [op |-> "failed", entity |-> e, oldLen |-> oldLen]
    /\ UNCHANGED <<exists, visible, visibleIn, points, changed, stage, oitVars, frameVars, arcVars>>

\* upload_point_clouds has drained the queue: the frame's render-world work is done.
UploadDone ==
    /\ stage = "upload" /\ ~panicked
    /\ pending = << >>
    /\ stage' = "update"
    /\ lastUpload' = NoUpload
    /\ UNCHANGED <<exists, visible, visibleIn, points, changed, instances, pending, allocator,
                   point_buffer, live, panicked, oitVars, frameVars, arcVars>>

Next ==
    \/ \E e \in Entities : Spawn(e)
    \/ \E e \in Entities : Despawn(e)
    \/ \E e \in Entities : SetVisibility(e)
    \/ \E e \in Entities : Scan(e)
    \/ \E e \in Entities : ClearScan(e)
    \/ Extract
    \/ UploadStep
    \/ UploadDone

Spec == Init /\ [][Next]_vars

\* ------------------------------------------------------------- the view
\* extract_camera_phases, at the start of the view's next frame.
ExtractCameraPhases ==
    /\ oitStage = "done"
    /\ \E cameraExists, is_active \in BOOLEAN :
          /\ phasePresent' = IF ~cameraExists THEN FALSE
                             ELSE IF is_active THEN TRUE ELSE phasePresent
          /\ phaseItems' = IF cameraExists /\ ~is_active THEN phaseItems ELSE << >>
    /\ commands' = << >>
    /\ oitStage' = "queue"
    /\ UNCHANGED <<roundMode, copyPipelineReady, accum, target, cloudVars, frameVars, arcVars>>

\* queue_point_clouds: one entry per instance, in the order of the map's keys.
QueuePointClouds ==
    /\ oitStage = "queue"
    /\ \E items \in SeqsUpTo(Fragments, MaxEntries) :
          /\ Len(phaseItems) + Len(items) <= MaxEntries
          /\ phaseItems' = IF phasePresent THEN phaseItems \o items ELSE phaseItems
    /\ oitStage' = "prepare"
    /\ UNCHANGED <<roundMode, phasePresent, copyPipelineReady, accum, target, commands, cloudVars, frameVars, arcVars>>

\* prepare_order_independent_transparency_pipeline: the pipeline is queued in
\* the cache, which has compiled it or not.
PreparePipeline ==
    /\ oitStage = "prepare"
    /\ \E ready \in BOOLEAN : copyPipelineReady' = ready
    /\ oitStage' = "prepare_texture"
    /\ UNCHANGED <<roundMode, phasePresent, phaseItems, accum, target, commands, cloudVars, frameVars, arcVars>>

\* prepare_transparent_accumulation_texture: fresh attachments, cleared on first use.
PrepareTexture ==
    /\ oitStage = "prepare_texture"
    /\ accum' = Uncleared
    /\ oitStage' = "graph"
    /\ UNCHANGED <<roundMode, phasePresent, phaseItems, copyPipelineReady, target, commands, cloudVars, frameVars, arcVars>>

\* The nodes of the render graph before the copy node (it is placed after
\* MainTransparentPass): they leave some colour in the view's target.
MainPasses ==
    /\ oitStage = "graph"
    /\ \E dst \in TargetValues : target' = dst
    /\ oitStage' = "copy"
    /\ UNCHANGED <<roundMode, phasePresent, phaseItems, copyPipelineReady, accum, commands, cloudVars, frameVars, arcVars>>


\* ------------------------------------------------------------ the frame
\* The views the render world extracted: the active cameras.
ExtractedViews == {v \in Views : cameras[v] = "active"}

\* BinnedRenderPhase::default() and BinnedRenderPhase::clear().
EmptyPhase == [items |-> << >>, batch_sets |-> << >>]

\* The bin key queue_point_clouds gives every entity.
PointCloudKey == [pipeline |-> "PointCloudPipeline", draw_function |-> "DrawPointCloud"]

\* The bin key queue_material_point_clouds gives an entity with a prepared material.
MaterialKey == [pipeline |-> "PointCloudMaterialPipeline", draw_function |-> "DrawPointCloudMaterial"]

\* The sequences that hold each element of S once: the orders in which a
\* hash map's keys may be visited.
Orders(S) == {q \in [1..Cardinality(S) -> S] : \A i, j \in DOMAIN q : q[i] = q[j] => i = j}

\* A camera is spawned or despawned.
SetCamera(v) ==
    /\ frameStage = "update" /\ stage = "update" /\ ~panicked
    /\ cameras' = [cameras EXCEPT ![v] = IF @ = "none" THEN "active" ELSE "none"]
    /\ LET seen == [e \in Entities |-> IF cameras[v] = "none" THEN visibleIn[e] ELSE visibleIn[e] \ {v}]
       IN  /\ visibleIn' = seen
           /\ visible' = [e \in Entities |-> seen[e] # {}]
    /\ UNCHANGED <<exists, points, changed, renderVars, oitVars, frameStage, transform,
                   transparent_phases, indirect, indirect_buffer, batched_instance_buffer,
                   material_phases, draws, arcVars>>

\* Camera::is_active of a camera is cleared, or set again; while it is
\* cleared the camera is not extracted as a view and sees no entity.
SetCameraActive(v) ==
    /\ frameStage = "update" /\ stage = "update" /\ ~panicked
    /\ cameras[v] # "none"
    /\ cameras' = [cameras EXCEPT ![v] = IF @ = "active" THEN "inactive" ELSE "active"]
    /\ LET seen == [e \in Entities |-> visibleIn[e] \ {v}]
       IN  /\ visibleIn' = seen
           /\ visible' = [e \in Entities |-> seen[e] # {}]
    /\ UNCHANGED <<exists, points, changed, renderVars, oitVars, frameStage, transform,
                   transparent_phases, indirect, indirect_buffer, batched_instance_buffer,
                   material_phases, draws, arcVars>>

\* check_visibility: the entity is in the VisibleEntities of the views vs, and
\* its ViewVisibility is set when some view sees it.
CheckVisibility(e, vs) ==
    /\ frameStage = "update" /\ stage = "update" /\ ~panicked
    /\ exists[e]
    /\ vs \subseteq ExtractedViews
    /\ vs # visibleIn[e]
    /\ visibleIn' = [visibleIn EXCEPT ![e] = vs]
    /\ visible' = [visible EXCEPT ![e] = vs # {}]
    /\ UNCHANGED <<exists, points, changed, renderVars, oitVars, frameVars, arcVars>>

\* The entity is moved.
Move(e) ==
    /\ frameStage = "update" /\ stage = "update" /\ ~panicked
    /\ exists[e]
    /\ \E t \in TransformValues \ {transform[e]} : transform' = [transform EXCEPT ![e] = t]
    /\ UNCHANGED <<cloudVars, oitVars, frameStage, cameras, transparent_phases, indirect,
                   indirect_buffer, batched_instance_buffer, material_phases, draws, arcVars>>

\* An entity comes into the views for the first time: it was spawned, the
\* scanner has pushed some points to it, and check_visibility finds it in the
\* views that are active.
FrameSpawn(e) ==
    /\ frameStage = "update" /\ stage = "update" /\ ~panicked
    /\ ~exists[e]
    /\ exists' = [exists EXCEPT ![e] = TRUE]
    /\ visibleIn' = [visibleIn EXCEPT ![e] = ExtractedViews]
    /\ visible' = [visible EXCEPT ![e] = ExtractedViews # {}]
    /\ changed' = [changed EXCEPT ![e] = TRUE]
    /\ \E n \in 0..MaxPoints : points' = [points EXCEPT ![e] = [k \in 1..n |-> ScanSample(e)]]
    /\ UNCHANGED <<renderVars, oitVars, frameVars, arcVars>>

\* extract_point_clouds of the frame.
FrameExtract == frameStage = "update" /\ Extract

\* An extract that gives a phase to a camera that has none and leaves the
\* phase of every other camera as it is.
extract_camera_phases_keeps(phases) ==
    [v \in {x \in Views : cameras[x] # "none" /\ (cameras[x] = "active" \/ x \in DOMAIN phases)} |->
        IF v \in DOMAIN phases THEN phases[v] ELSE EmptyPhase]

\* extract_camera_phases over every view.
extract_camera_phases(phases) ==
    [v \in {x \in Views : cameras[x] # "none" /\ (cameras[x] = "active" \/ x \in DOMAIN phases)} |->
        IF cameras[v] = "active" THEN EmptyPhase ELSE phases[v]]

\* The phase of a camera that is not active is kept as it is, and batching
\* adds a batch set to it in every frame: the frames go on while it holds
\* fewer than MaxBatchSets.
ExtractCameraPhasesOfViews ==
    /\ frameStage = "update" /\ stage = "upload" /\ ~panicked
    /\ \A v \in DOMAIN transparent_phases :
          cameras[v] = "inactive" => Len(transparent_phases[v].batch_sets) < MaxBatchSets
    /\ transparent_phases' = extract_camera_phases(transparent_phases)
    /\ draws' = << >>
    /\ frameStage' = "queue"
    /\ UNCHANGED <<cloudVars, oitVars, transform, cameras, indirect, indirect_buffer,
                   batched_instance_buffer, material_phases, arcVars>>

\* transparent_phase.add(key, entity, true) for the entities in the order given.
PhaseAdd(phase, key, order) ==
    [phase EXCEPT !.items = @ \o [i \in DOMAIN order |-> [key |-> key, entity |-> order[i]]]]

\* queue_point_clouds: every extracted view that has a phase gets an entry
\* for every key of PointCloudInstances.
queue_point_clouds(phases, order) ==
    [v \in DOMAIN phases |->
        IF v \in ExtractedViews THEN PhaseAdd(phases[v], PointCloudKey, order) ELSE phases[v]]

QueuePointCloudsOfViews ==
    /\ frameStage = "queue" /\ ~panicked
    /\ \E order \in Orders(DOMAIN instances) :
          transparent_phases' = queue_point_clouds(transparent_phases, order)
    /\ frameStage' = "queue_material"
    /\ UNCHANGED <<cloudVars, oitVars, transform, cameras, indirect, indirect_buffer,
                   batched_instance_buffer, material_phases, draws, arcVars>>

\* queue_material_point_clouds: the same loop over the phases of the phase
\* item of transparency.rs, which hold no view.
QueueMaterialPointClouds ==
    /\ frameStage = "queue_material" /\ ~panicked
    /\ \E order \in Orders(DOMAIN instances) :
          material_phases' =
              [v \in DOMAIN material_phases |->
                  IF v \in ExtractedViews
                  THEN PhaseAdd(material_phases[v], MaterialKey, order)
                  ELSE material_phases[v]]
    /\ frameStage' = "prepare"
    /\ UNCHANGED <<cloudVars, oitVars, transform, cameras, transparent_phases, indirect,
                   indirect_buffer, batched_instance_buffer, draws, arcVars>>

\* A batching that starts a new batch at every entity instead of extending
\* the batch of the bin.
get_binned_batch_data_restarts(st, entity) ==
    IF entity \notin DOMAIN instances THEN st
    ELSE LET instance == instances[entity]
             index == Len(st.buffer)
         IN  [indirect |-> PointCloudIndirect_push(st.indirect, instance),
              buffer |-> Append(st.buffer,
                            [world_from_local |-> to_transpose(instance.world_from_local),
                             previous_world_from_local |->
                                 to_transpose(instance.previous_world_from_local),
                             entity |-> entity]),
              batch |-> <<[start |-> index, end |-> index + 1]>>]

\* A batching that leaves a zeroed uniform record for an entity that has no
\* instance record.
get_binned_batch_data_pads_missing(st, entity) ==
    IF entity \notin DOMAIN instances
    THEN [st EXCEPT !.buffer = Append(@, [world_from_local |-> to_transpose(Affine3(Identity)),
                                          previous_world_from_local |-> to_transpose(Affine3(Identity)),
                                          entity |-> entity])]
    ELSE LET instance == instances[entity]
             index == Len(st.buffer)
         IN  [indirect |-> PointCloudIndirect_push(st.indirect, instance),
              buffer |-> Append(st.buffer,
                            [world_from_local |-> to_transpose(instance.world_from_local),
                             previous_world_from_local |->
                                 to_transpose(instance.previous_world_from_local),
                             entity |-> entity]),
              batch |-> IF st.batch = << >> THEN <<[start |-> index, end |-> index + 1]>>
                        ELSE <<[st.batch[1] EXCEPT !.end = index + 1]>>]

\* PointCloudPipeline::get_binned_batch_data for one entity of a bin.
\* st = [indirect, buffer, batch]; batch is the instance range so far.
get_binned_batch_data(st, entity) ==
    IF entity \notin DOMAIN instances THEN st
    ELSE LET instance == instances[entity]
             index == Len(st.buffer)
         IN  [indirect |-> PointCloudIndirect_push(st.indirect, instance),
              buffer |-> Append(st.buffer,
                            [world_from_local |-> to_transpose(instance.world_from_local),
                             previous_world_from_local |->
                                 to_transpose(instance.previous_world_from_local),
                             entity |-> entity]),
              batch |-> IF st.batch = << >> THEN <<[start |-> index, end |-> index + 1]>>
                        ELSE <<[st.batch[1] EXCEPT !.end = index + 1]>>]

\* The entities of a bin, in the order they were added.
RECURSIVE BatchBin(_, _, _)
BatchBin(st, items, key) ==
    IF items = << >> THEN st
    ELSE BatchBin(IF Head(items).key = key THEN get_binned_batch_data(st, Head(items).entity) ELSE st,
                  Tail(items), key)

\* batch_and_prepare_binned_render_phase for one phase: a batch set per key.
RECURSIVE BatchPhase(_, _, _)
BatchPhase(st, phase, keys) ==
    IF keys = {} THEN [indirect |-> st.indirect, buffer |-> st.buffer, phase |-> phase]
    ELSE LET key == CHOOSE k \in keys : TRUE
             got == BatchBin([indirect |-> st.indirect, buffer |-> st.buffer, batch |-> << >>],
                             phase.items, key)
         IN  BatchPhase(got,
                        [phase EXCEPT !.batch_sets = Append(@, [key |-> key, batches |-> got.batch])],
                        keys \ {key})

\* batch_and_prepare_binned_render_phase over the phases in the order given.
RECURSIVE BatchPhases(_, _, _)
BatchPhases(st, phases, order) ==
    IF order = << >> THEN [indirect |-> st.indirect, buffer |-> st.buffer, phases |-> phases]
    ELSE LET v == Head(order)
             got == BatchPhase(st, phases[v], {phases[v].items[i].key : i \in DOMAIN phases[v].items})
         IN  BatchPhases(got, [phases EXCEPT ![v] = got.phase], Tail(order))

\* The batching system of BinnedRenderPhasePlugin; it runs before or after
\* upload_point_clouds, never in the middle of it.
BatchAndPrepare ==
    /\ frameStage = "prepare" /\ ~panicked
    /\ lastUpload = NoUpload
    /\ \E order \in Orders(DOMAIN transparent_phases) :
          LET got == BatchPhases([indirect |-> indirect, buffer |-> batched_instance_buffer],
                                 transparent_phases, order)
          IN  /\ indirect' = got.indirect
              /\ batched_instance_buffer' = got.buffer
              /\ transparent_phases' = got.phases
    /\ frameStage' = "batched"
    /\ UNCHANGED <<cloudVars, oitVars, transform, cameras, indirect_buffer, material_phases, draws, arcVars>>

FrameUploadStep == frameStage \in {"prepare", "batched"} /\ UploadStep

FrameUploadDone == frameStage \in {"prepare", "batched"} /\ UploadDone

\* write_point_cloud_indirect: RawBufferVec::write_buffer writes nothing
\* when there are no values.
WritePointCloudIndirect ==
    /\ frameStage = "batched" /\ stage = "update" /\ ~panicked
    /\ indirect_buffer' = IF indirect = << >> THEN indirect_buffer ELSE indirect
    /\ indirect' = << >>
    /\ frameStage' = "render"
    /\ UNCHANGED <<cloudVars, oitVars, transform, cameras, transparent_phases,
                   batched_instance_buffer, material_phases, draws, arcVars>>

\* DrawPointCloudMesh::render for one batch: multi_draw_indirect over the
\* descriptors of the batch range.
DrawPointCloudMesh(batch) ==
    IF indirect_buffer = << >> THEN << >>
    ELSE [i \in 1..(batch.end - batch.start) |->
             [descriptor |-> indirect_buffer[batch.start + i], slot |-> batch.start + i - 1]]

\* transparent_phase.render: the batches of every batch set, in order.
RECURSIVE RenderPhase(_)
RenderPhase(batch_sets) ==
    IF batch_sets = << >> THEN << >>
    ELSE (IF Head(batch_sets).batches = << >> THEN << >>
          ELSE DrawPointCloudMesh(Head(batch_sets).batches[1]))
         \o RenderPhase(Tail(batch_sets))

\* The render graph runs OrderIndependentCopyNode for every extracted view.
RenderViews ==
    /\ frameStage = "render" /\ ~panicked
    /\ draws' = [v \in ExtractedViews \cap DOMAIN transparent_phases |->
                    IF PhaseIsEmpty(transparent_phases[v].items) THEN << >>
                    ELSE RenderPhase(transparent_phases[v].batch_sets)]
    /\ frameStage' = "cleanup"
    /\ UNCHANGED <<cloudVars, oitVars, transform, cameras, transparent_phases, indirect,
                   indirect_buffer, batched_instance_buffer, material_phases, arcVars>>

\* clear_batched_cpu_instance_buffers.
Cleanup ==
    /\ frameStage = "cleanup" /\ ~panicked
    /\ batched_instance_buffer' = << >>
    /\ frameStage' = "update"
    /\ UNCHANGED <<cloudVars, oitVars, transform, cameras, transparent_phases, indirect,
                   indirect_buffer, material_phases, draws, arcVars>>

NextFrame ==
    \/ \E v \in Views : SetCamera(v)
    \/ \E e \in Entities : FrameSpawn(e)
    \/ \E e \in Entities : \E vs \in SUBSET Views : CheckVisibility(e, vs)
    \/ \E e \in Entities : Move(e)
    \/ FrameExtract
    \/ ExtractCameraPhasesOfViews
    \/ QueuePointCloudsOfViews
    \/ QueueMaterialPointClouds
    \/ BatchAndPrepare
    \/ FrameUploadStep
    \/ FrameUploadDone
    \/ WritePointCloudIndirect
    \/ RenderViews
    \/ Cleanup

SpecFrame == Init /\ [][NextFrame]_vars

\* The frames of an application whose cameras are switched off and on: the
\* phase of a camera that is not active keeps the entries of its last frame.
NextStale ==
    \/ \E v \in Views : SetCamera(v)
    \/ \E v \in Views : SetCameraActive(v)
    \/ \E e \in Entities : FrameSpawn(e)
    \/ \E e \in Entities : Move(e)
    \/ FrameExtract
    \/ ExtractCameraPhasesOfViews
    \/ QueuePointCloudsOfViews
    \/ QueueMaterialPointClouds
    \/ BatchAndPrepare
    \/ FrameUploadStep
    \/ FrameUploadDone
    \/ WritePointCloudIndirect
    \/ RenderViews
    \/ Cleanup

SpecStale == Init /\ [][NextStale]_vars

\* OrderIndependentCopyNode::run.
NodeRun ==
    /\ oitStage = "copy"
    /\ IF ~phasePresent \/ PhaseIsEmpty(phaseItems)
       THEN UNCHANGED <<accum, target, commands>>
       ELSE /\ accum' = Accumulate(ClearSurfaces, phaseItems, roundMode)
            /\ commands' = NodeCommands(phaseItems, copyPipelineReady)
            /\ target' = IF copyPipelineReady THEN Resolve(accum', target) ELSE target
    /\ oitStage' = "done"
    /\ UNCHANGED <<roundMode, phasePresent, phaseItems, copyPipelineReady, cloudVars, frameVars, arcVars>>

NextOIT ==
    \/ ExtractCameraPhases
    \/ QueuePointClouds
    \/ PreparePipeline
    \/ PrepareTexture
    \/ MainPasses
    \/ NodeRun

SpecOIT == InitOIT /\ [][NextOIT]_vars

\* ------------------------------------------- the producer and the snapshots
\* scan: Arc::make_mut, then a push for a ray that hits.  With pipelined
\* rendering the main world runs while the render world uploads.
ArcScan(e) ==
    /\ \E hit \in BOOLEAN :
          LET got == Arc_make_mut(arcs, pointsArc[e])
          IN  /\ hit => Len(got.arcs[got.id].data) < MaxPoints
              /\ arcs' = [got.arcs EXCEPT ![got.id].data =
                             IF hit THEN Append(@, ScanSample(e)) ELSE @]
              /\ pointsArc' = [pointsArc EXCEPT ![e] = got.id]
    /\ UNCHANGED <<pendingArcs, cloudVars, oitVars, frameVars>>

\* clear_scan: Arc::make_mut, then clear.
ArcClearScan(e) ==
    /\ LET got == Arc_make_mut(arcs, pointsArc[e])
       IN  /\ arcs' = [got.arcs EXCEPT ![got.id].data = << >>]
           /\ pointsArc' = [pointsArc EXCEPT ![e] = got.id]
    /\ UNCHANGED <<pendingArcs, cloudVars, oitVars, frameVars>>

\* The pushes of extract_point_clouds for the entities of q, in order: a
\* clone of the entity's Arc; `seen` is the contents at that time.
RECURSIVE ArcPushAll(_, _)
ArcPushAll(st, q) ==
    IF q = << >> THEN st
    ELSE LET e == Head(q)
         IN  ArcPushAll([arcs |-> Arc_clone(st.arcs, pointsArc[e]),
                         pending |-> Append(st.pending,
                                        [entity |-> e, points |-> pointsArc[e],
                                         seen |-> st.arcs[pointsArc[e]].data])],
                        Tail(q))

\* extract_point_clouds: the entities that are new or changed are pushed.
\* The render world has drained the queue of the frame before.
ArcExtract ==
    /\ pendingArcs = << >>
    /\ \E S \in SUBSET Entities : \E q \in Orders(S) :
          LET st == ArcPushAll([arcs |-> arcs, pending |-> pendingArcs], q)
          IN  /\ S # {}
              /\ arcs' = st.arcs
              /\ pendingArcs' = st.pending
    /\ UNCHANGED <<pointsArc, cloudVars, oitVars, frameVars>>

\* One iteration of the drain loop of upload_point_clouds: the points are
\* read and the Arc is dropped.
ArcUpload ==
    /\ pendingArcs # << >>
    /\ pendingArcs' = Tail(pendingArcs)
    /\ arcs' = Arc_drop(arcs, Head(pendingArcs).points)
    /\ UNCHANGED <<pointsArc, cloudVars, oitVars, frameVars>>

NextArc ==
    \/ \E e \in Entities : ArcScan(e)
    \/ \E e \in Entities : ArcClearScan(e)
    \/ ArcExtract
    \/ ArcUpload

SpecArc == Init /\ [][NextArc]_vars

TypeOK ==
    /\ stage \in {"update", "upload"}
    /\ DOMAIN instances \subseteq Entities

\* ------------------------------------------------------- arena properties
\* The free regions (gaps) and the used regions of the allocator.
FreeGaps(a) == {i \in DOMAIN a : ~a[i].used}

UsedRegions(a) == {[offset |-> a[i].offset, size |-> a[i].size, id |-> a[i].id] :
                      i \in {j \in DOMAIN a : a[j].used}}

RECURSIVE SumSizes(_, _)
SumSizes(a, S) ==
    IF S = {} THEN 0
    ELSE LET i == CHOOSE x \in S : TRUE IN a[i].size + SumSizes(a, S \ {i})

RECURSIVE SumLens(_)
SumLens(lv) ==
    IF lv = {} THEN 0
    ELSE LET l == CHOOSE x \in lv : TRUE IN l.len + SumLens(lv \ {l})

\* Two ranges [o1, o1 + n1) and [o2, o2 + n2) share no index.
Disjoint(o1, n1, o2, n2) == o1 + n1 <= o2 \/ o2 + n2 <= o1

\* The live allocations no instance record holds.
Leaked == {l \in live : \A e \in DOMAIN instances :
              ~(instances[e].allocation.some /\ instances[e].allocation.metadata = l.metadata)}

\* C1: the gaps the arena tracks as free never overlap one another, and the
\* lengths of the live allocations plus the sizes of the free gaps add up to
\* the arena's capacity.
C1_GapsDisjointAndSumToCapacity ==
    /\ \A i, j \in FreeGaps(allocator) :
          i # j => Disjoint(allocator[i].offset, allocator[i].size,
                            allocator[j].offset, allocator[j].size)
    /\ SumLens(live) + SumSizes(allocator, FreeGaps(allocator)) = Capacity

\* C1 witness: after a free-and-reallocate, with two allocations live and a
\* gap of positive size left.
C1_Witness ==
    /\ lastUpload.op = "reallocated"
    /\ Cardinality(live) >= 2
    /\ \E i \in FreeGaps(allocator) : allocator[i].size > 0

\* C2: every live allocation lies within [0, capacity) and no two live
\* allocations overlap; this holds in particular right after an allocation
\* was freed and the same size requested again.
C2_LiveWithinCapacityAndDisjoint ==
    /\ \A l \in live : l.offset >= 0 /\ l.offset + l.len <= Capacity
    /\ \A l1, l2 \in live :
          l1 # l2 => Disjoint(l1.offset, l1.len, l2.offset, l2.len)

\* C2 witness: an allocation of positive length was freed and the same
\* length allocated again while another allocation of positive length is live.
C2_Witness ==
    /\ lastUpload.op = "reallocated"
    /\ lastUpload.oldLen > 0
    /\ lastUpload.entity \in DOMAIN instances
    /\ instances[lastUpload.entity].allocation.some
    /\ LET mine == LiveEntry(live, instances[lastUpload.entity].allocation.metadata)
       IN  /\ mine.len = lastUpload.oldLen
           /\ \E other \in live : other # mine /\ other.len > 0

\* C3: when reconcile removes an instance record, the allocation it held is
\* returned to the arena: every range the arena counts as allocated is held
\* by some instance record.
C3_RemovedRecordFreesAllocation ==
    \A r \in UsedRegions(allocator) :
        \E e \in DOMAIN instances :
            instances[e].allocation.some /\ instances[e].allocation.metadata = r.id

\* C4: after reconcile the registry holds a record for each object that
\* exists and is visible, and for no other object.
C4_RegistryIsVisibleObjects ==
    stage = "upload" =>
        DOMAIN instances = {e \in Entities : exists[e] /\ visible[e]}

\* C4 witness: reconcile has run, one object is visible and registered, the
\* other exists, is hidden and has had its record removed (the allocation
\* that record held is still in the arena).
C4_Witness ==
    /\ stage = "upload"
    /\ \E e1, e2 \in Entities :
          /\ e1 # e2
          /\ exists[e1] /\ visible[e1] /\ e1 \in DOMAIN instances
          /\ exists[e2] /\ ~visible[e2] /\ e2 \notin DOMAIN instances
    /\ Leaked # {}

\* C5: an allocation the arena cannot satisfy is not an error: the frame
\* goes on, and the object is left without an allocation, to be tried again
\* when it next changes.
C5_AllocationFailureSkipsObject ==
    lastUpload.op = "failed" =>
        /\ ~panicked
        /\ lastUpload.entity \in DOMAIN instances
        /\ ~instances[lastUpload.entity].allocation.some

\* C6: an allocation that fails changes neither the arena's bookkeeping nor
\* any other object's allocation or stored point data: beyond the release of
\* the requesting object's own previous range, the used ranges, the live
\* allocations, the buffer contents and the other records stay as they were.
C6_FailedAllocationChangesNothing ==
    [][(~panicked /\ panicked') =>
          LET e == Head(pending).entity
              old == instances[e].allocation
          IN  /\ UsedRegions(allocator') =
                     {r \in UsedRegions(allocator) : ~(old.some /\ r.id = old.metadata)}
              /\ live' = {l \in live : ~(old.some /\ l.metadata = old.metadata)}
              /\ point_buffer' = point_buffer
              /\ \A o \in DOMAIN instances \ {e} :
                     o \in DOMAIN instances' /\ instances'[o] = instances[o]
              /\ SumLens(live') + SumSizes(allocator', FreeGaps(allocator')) = Capacity
      ]_vars

\* C6 witness: an allocation has failed while another object holds an
\* allocation with stored points.
C6_Witness ==
    /\ lastUpload.op = "failed"
    /\ \E o \in DOMAIN instances :
          /\ o # lastUpload.entity
          /\ instances[o].allocation.some
          /\ LiveEntry(live, instances[o].allocation.metadata).len > 0

\* C8: the samples read back from the buffer at a live allocation's offset,
\* allocation length many, are the samples that were written for it.
C8_ReadBackEqualsWritten ==
    \A l \in live :
        ReadSamples(point_buffer, l.offset, l.len) = [k \in 1..l.len |-> Sample(l.data[k])]

\* --------------------------------------------------- compositor properties
\* The entries of the phase submitted in the order p.
Permute(items, p) == [i \in 1..Len(items) |-> items[p[i]]]

Abs(x) == IF x < 0 THEN -x ELSE x

Max(x, y) == IF x < y THEN y ELSE x

\* The copy node has run in this frame over a phase that holds entries.
PassRan == oitStage = "done" /\ phasePresent /\ phaseItems # << >>

\* The positions of the resolve draw in the recorded commands.
ResolveDraws == {i \in DOMAIN commands : commands[i] = Cmd("copy", "draw")}

\* The resolve draw at position i comes after the accumulate pass has been
\* begun, has drawn and has ended.
AfterAccumulate(i) ==
    \E j \in DOMAIN commands :
        /\ j < i
        /\ commands[j] = Cmd("accumulate", "end")
        /\ \A k \in DOMAIN commands : commands[k].pass = "accumulate" => k <= j

\* C9 as stated: for a fixed set of draw entries the accumulation surfaces
\* after the Accumulate pass are the same for every permutation of the
\* submission order.
C9_SurfacesSameForEveryPermutation ==
    PassRan =>
        \A p \in Permutations(1..Len(phaseItems)) :
            LET s == Accumulate(ClearSurfaces, Permute(phaseItems, p), roundMode)
            IN  s.colour = accum.colour /\ s.coverage = accum.coverage

\* C9 amended: the accumulation surfaces of any two submission orders of the
\* same entries agree up to the rounding of the 16-bit float targets (one
\* unit in the last place per entry after the first), and are identical
\* when no blend result had to be rounded.
C9_SurfacesAgreeUpToRounding ==
    PassRan =>
        \A p \in Permutations(1..Len(phaseItems)) :
            LET s == Accumulate(ClearSurfaces, Permute(phaseItems, p), roundMode)
                n == Len(phaseItems)
            IN  /\ Abs(s.colour - accum.colour)
                      <= (n - 1) * Ulp(Max(s.colour, accum.colour))
                /\ Abs(s.coverage - accum.coverage) <= (n - 1) * Ulp(One)
                /\ (s.exact /\ accum.exact) =>
                      (s.colour = accum.colour /\ s.coverage = accum.coverage)

\* C9 witness: a pass over three entries or more in which a blend result was
\* rounded and another submission order yields other bits.
C9_Witness ==
    /\ PassRan
    /\ Len(phaseItems) >= 3
    /\ ~accum.exact
    /\ \E p \in Permutations(1..Len(phaseItems)) :
          Accumulate(ClearSurfaces, Permute(phaseItems, p), roundMode).colour # accum.colour

\* C10 as stated: in every frame in which the view has at least one draw
\* entry the Resolve full-screen draw is issued exactly once, and only after
\* the Accumulate pass (all of its draws) has ended.
C10_ResolveExactlyOnceAfterAccumulate ==
    PassRan =>
        /\ Cardinality(ResolveDraws) = 1
        /\ \A i \in ResolveDraws : AfterAccumulate(i)

\* C10 amended: in a run of the copy node the Resolve full-screen draw is
\* issued at most once and only after the Accumulate pass has ended; over a
\* phase with at least one entry it is issued exactly once if the pipeline
\* cache holds the resolve pipeline, and not at all if it does not.
C10_ResolveOnceWhenPipelineReady ==
    oitStage = "done" =>
        /\ Cardinality(ResolveDraws) <= 1
        /\ \A i \in ResolveDraws : AfterAccumulate(i)
        /\ PassRan => Cardinality(ResolveDraws) = (IF copyPipelineReady THEN 1 ELSE 0)
        /\ ~PassRan => ResolveDraws = {}

\* C10 witness: the node has run over two entries or more with the resolve
\* pipeline available, and has recorded the resolve draw.
C10_Witness ==
    /\ PassRan
    /\ Len(phaseItems) >= 2
    /\ copyPipelineReady
    /\ ResolveDraws # {}

\* ------------------------------------------------- reconcile and upload
\* The arena after every live allocation has been freed.
RECURSIVE FreeAll(_, _)
FreeAll(a, lv) ==
    IF lv = {} THEN a
    ELSE LET l == CHOOSE x \in lv : TRUE
         IN  FreeAll(AllocatorFree(a, Some(l.offset, l.metadata)), lv \ {l})

\* The entities queued in PendingPointClouds.
Queued(q) == {q[i].entity : i \in DOMAIN q}

\* The upload stage of the frame has run to its end.
UploadStageDone == stage = "upload" /\ pending = << >> /\ ~panicked

\* The live allocations that hold points of entity e.
AllocationsOf(e) == {l \in live : l.len > 0 /\ l.data[1] = ScanSample(e)}

\* C12: a request that does not fit in the free space fails as an
\* AllocationExhausted error, after which the arena is still in use: once
\* the allocations blocking the request are freed the same request
\* succeeds, at offset 0 when the arena is otherwise empty.
C12_ExhaustedRequestSucceedsAfterFree ==
    lastUpload.op = "failed" =>
        /\ ~panicked
        /\ LET n == instances[lastUpload.entity].num_points
               empty == FreeAll(allocator, live)
           IN  /\ AllocatorCanAllocate(empty, n)
               /\ \A gap \in Fits(empty, n) :
                      AllocatorAllocate(empty, n, gap).allocation.offset = 0

\* C13: an object that was uploaded, became invisible in one frame and
\* visible again in the next with another number of points holds, after
\* that frame's upload, an allocation of the new length, and the arena holds
\* no live allocation for its earlier points.
C13_ReuploadLeavesOnlyNewAllocation ==
    (stage = "upload" /\ lastUpload.op = "allocated") =>
        LET e == lastUpload.entity
            rec == instances[e]
        IN  /\ rec.allocation.some
            /\ LiveEntry(live, rec.allocation.metadata).len = rec.num_points
            /\ \A l \in AllocationsOf(e) : l.metadata = rec.allocation.metadata

\* C15: after the upload stage of a frame every instance record that holds
\* an allocation has allocation length = num_points = the length of the
\* object's point sequence.
C15_AllocationLengthIsPointCount ==
    UploadStageDone =>
        \A e \in DOMAIN instances :
            instances[e].allocation.some =>
                /\ LiveEntry(live, instances[e].allocation.metadata).len = instances[e].num_points
                /\ instances[e].num_points = Len(points[e])

\* C15 witness: the upload stage has ended after replacing the allocation of
\* an object whose point count grew, while another record holds an
\* allocation too.
C15_Witness ==
    /\ UploadStageDone
    /\ lastUpload.op = "reallocated"
    /\ lastUpload.entity \in DOMAIN instances
    /\ instances[lastUpload.entity].num_points > lastUpload.oldLen
    /\ \E o \in DOMAIN instances : o # lastUpload.entity /\ instances[o].allocation.some

\* C18: reconcile queues an object that has a record and is still visible
\* if and only if its point sequence version changed since the previous
\* frame; an object that is not queued keeps its allocation, offset and
\* length, through reconcile and through every step of the upload.
C18_QueuedIffSequenceChanged ==
    [][/\ (stage = "update" /\ stage' = "upload") =>
             \A e \in DOMAIN instances :
                 (exists[e] /\ visible[e]) =>
                     /\ e \in DOMAIN instances'
                     /\ (e \in Queued(pending')) <=> changed[e]
                     /\ instances'[e].allocation = instances[e].allocation
       /\ (stage = "upload" /\ pending' # pending) =>
             \A e \in DOMAIN instances \ {Head(pending).entity} :
                 /\ e \in DOMAIN instances'
                 /\ instances'[e] = instances[e]
                 /\ instances[e].allocation.some =>
                        LiveEntry(live', instances[e].allocation.metadata)
                            = LiveEntry(live, instances[e].allocation.metadata)
      ]_vars

\* C18 witness: in the upload stage one registered object is queued and
\* another, which holds an allocation with points, is not.
C18_Witness ==
    /\ stage = "upload"
    /\ \E e1, e2 \in DOMAIN instances :
          /\ e1 \in Queued(pending)
          /\ instances[e1].allocation.some
          /\ e2 \notin Queued(pending)
          /\ instances[e2].allocation.some
          /\ instances[e2].num_points > 0
    /\ lastUpload = NoUpload

\* C19: uploading an object that has no points is never an error or a
\* crash: it yields a zero-length allocation, and the object's draw
\* descriptor has vertex count 0.
C19_ZeroPointsUploadNeverFails ==
    (/\ lastUpload.op \in {"allocated", "reallocated", "failed"}
     /\ instances[lastUpload.entity].num_points = 0) =>
        LET rec == instances[lastUpload.entity]
        IN  /\ ~panicked
            /\ rec.allocation.some
            /\ LiveEntry(live, rec.allocation.metadata).len = 0
            /\ PointCloudIndirect_push(<< >>, rec)[1].vertex_count = 0

\* ------------------------------------------------------- empty views
\* The copy node runs over a view that has no phase or an empty phase.
EmptyNodeRun ==
    /\ oitStage = "copy" /\ oitStage' = "done"
    /\ (~phasePresent \/ phaseItems = << >>)

\* C11: for a view with zero draw entries neither the Accumulate pass nor
\* the Resolve pass is run and the final target is left exactly as it was,
\* which is also the target that Accumulate and Resolve over empty input
\* would have left.
C11_EmptyViewSkipsPassesTargetUntouched ==
    [][EmptyNodeRun =>
          /\ commands' = << >>
          /\ accum' = accum
          /\ target' = target
          /\ target' = Resolve(Accumulate(ClearSurfaces, << >>, roundMode), target)
      ]_vars

\* C11 witness: the node has run over a present but empty phase, with a
\* colour other than black in the target, and has recorded no command.
C11_Witness ==
    /\ oitStage = "done"
    /\ phasePresent /\ phaseItems = << >>
    /\ copyPipelineReady
    /\ target \in TargetValues \ {0}
    /\ commands = << >>

\* ------------------------------------------------------ batches and draws
\* The objects that exist and have ViewVisibility set.
VisibleObjects == {e \in Entities : exists[e] /\ visible[e]}

\* The keys of the entries of a phase.
KeysOf(phase) == {phase.items[i].key : i \in DOMAIN phase.items}

\* The draws of view v that read the uniform slot of entity e.
DrawsOf(v, e) ==
    {i \in DOMAIN draws[v] : batched_instance_buffer[draws[v][i].slot + 1].entity = e}

\* The views' passes of this frame have run.
Rendered == frameStage = "cleanup"

C20_EntryOnlyIfAllocatedAndVisibleInView ==
    \A v \in DOMAIN transparent_phases :
        \A i \in DOMAIN transparent_phases[v].items :
            LET e == transparent_phases[v].items[i].entity
            IN  /\ e \in DOMAIN instances
                /\ instances[e].allocation.some
                /\ v \in visibleIn[e]

\* ---------------------------------------------------------- transforms
\* extract_point_clouds runs in this step.
Reconcile == stage = "update" /\ stage' = "upload"

\* C16: for an object that has a record and is still visible, after
\* reconcile the record's previous transform is the value its current
\* transform had before the pass, and its current transform is the object's
\* transform of this frame.
C16_PreviousTransformIsOldCurrent ==
    [][Reconcile =>
          \A e \in DOMAIN instances :
              (exists[e] /\ visible[e]) =>
                  /\ e \in DOMAIN instances'
                  /\ instances'[e].previous_world_from_local = instances[e].world_from_local
                  /\ instances'[e].world_from_local = Affine3(transform[e])
      ]_vars

\* C17: an object that newly becomes visible gets a new record whose current
\* and previous transforms both are the object's transform and which has no
\* allocation, and it is queued, so that when the upload stage of the same
\* frame has ended the record holds an allocation for its points.
C17_NewRecordQueuedAndAllocatedSameFrame ==
    [][/\ Reconcile =>
             \A e \in VisibleObjects \ DOMAIN instances :
                 /\ e \in DOMAIN instances'
                 /\ instances'[e].world_from_local = Affine3(transform[e])
                 /\ instances'[e].previous_world_from_local = Affine3(transform[e])
                 /\ ~instances'[e].allocation.some
                 /\ e \in Queued(pending')
       /\ (stage = "upload" /\ stage' = "update") =>
             \A e \in DOMAIN instances' :
                 /\ instances'[e].allocation.some
                 /\ LiveEntry(live', instances'[e].allocation.metadata).len = Len(points[e])
      ]_vars

\* C17 witness: in the frame in which an object that had been moved came
\* into view, its new record has been given an allocation holding its point.
C17_Witness ==
    /\ lastUpload.op = "allocated"
    /\ lastUpload.entity \in DOMAIN instances
    /\ LET e == lastUpload.entity
       IN  /\ transform[e] # Identity
           /\ instances[e].world_from_local = Affine3(transform[e])
           /\ instances[e].previous_world_from_local = Affine3(transform[e])
           /\ instances[e].allocation.some
           /\ instances[e].num_points > 0
    /\ frameStage \in {"prepare", "batched"}

\* ------------------------------------------------------ draw descriptors
\* Batching has run in this frame and its descriptors are not yet written.
Batched == frameStage = "batched"

\* The entity whose uniform record is in slot i (from 1) of the uniform buffer.
EntityOfSlot(i) == batched_instance_buffer[i].entity

\* C21: every draw descriptor emitted for an instance has vertex count 6
\* times the instance's point count and instance count 1, when batching
\* has pushed it and when a view's pass draws it.
C21_DescriptorSixVerticesPerPoint ==
    /\ Batched =>
          \A i \in DOMAIN indirect :
              /\ i \in DOMAIN batched_instance_buffer
              /\ EntityOfSlot(i) \in DOMAIN instances
              /\ indirect[i].vertex_count = 6 * instances[EntityOfSlot(i)].num_points
              /\ indirect[i].instance_count = 1
    /\ Rendered =>
          \A v \in DOMAIN draws :
              \A i \in DOMAIN draws[v] :
                  LET d == draws[v][i]
                  IN  /\ EntityOfSlot(d.slot + 1) \in DOMAIN instances
                      /\ d.descriptor.vertex_count
                             = 6 * instances[EntityOfSlot(d.slot + 1)].num_points
                      /\ d.descriptor.vertex_count = 6 * Len(points[EntityOfSlot(d.slot + 1)])
                      /\ d.descriptor.instance_count = 1

\* C21 witness: a view's pass has drawn an object that has points and an
\* object that has none.
C21_Witness ==
    /\ Rendered
    /\ \E v \in DOMAIN draws :
          /\ \E i \in DOMAIN draws[v] : draws[v][i].descriptor.vertex_count >= 6
          /\ \E i \in DOMAIN draws[v] : draws[v][i].descriptor.vertex_count = 0

\* The range of point samples a draw descriptor reads: six vertices a point.
PointRange(d) == [first |-> d.first_vertex \div 6, count |-> d.vertex_count \div 6]

\* C22: every draw descriptor carries the buffer offset of its instance's
\* points: the range it draws starts at the offset of the instance's
\* current allocation, so two instances allocated at different offsets are
\* drawn from different point ranges.
C22_DescriptorCarriesAllocationOffset ==
    Rendered =>
        \A v \in DOMAIN draws :
            \A i \in DOMAIN draws[v] :
                LET e == EntityOfSlot(draws[v][i].slot + 1)
                IN  /\ instances[e].allocation.some
                    /\ PointRange(draws[v][i].descriptor).first = instances[e].allocation.offset
                    /\ \A j \in DOMAIN draws[v] :
                           LET o == EntityOfSlot(draws[v][j].slot + 1)
                           IN  instances[o].allocation.offset # instances[e].allocation.offset
                                   => PointRange(draws[v][j].descriptor).first
                                          # PointRange(draws[v][i].descriptor).first

\* The entries of the phases of the views in S whose entity has a record.
RECURSIVE EntriesWithRecord(_)
EntriesWithRecord(S) ==
    IF S = {} THEN 0
    ELSE LET v == CHOOSE x \in S : TRUE
         IN  Cardinality({k \in DOMAIN transparent_phases[v].items :
                             transparent_phases[v].items[k].entity \in DOMAIN instances})
                 + EntriesWithRecord(S \ {v})

\* The entries of the phases whose entity has no record.
MissingEntries ==
    {<<v, k>> \in Views \X (1..MaxEntries) :
        /\ v \in DOMAIN transparent_phases
        /\ k \in DOMAIN transparent_phases[v].items
        /\ transparent_phases[v].items[k].entity \notin DOMAIN instances}

\* C23: after batching the draw command buffer and the uniform buffer have
\* the same number of entries, the descriptor at index i has first_instance
\* i and the uniform record at slot i is the transform pair of the same
\* instance, and an entry whose instance is missing from the registry has
\* added an entry to neither buffer.
C23_DrawAndUniformBuffersAligned ==
    Batched =>
        /\ Len(indirect) = Len(batched_instance_buffer)
        /\ Len(indirect) = EntriesWithRecord(DOMAIN transparent_phases)
        /\ \A i \in DOMAIN indirect :
              LET e == EntityOfSlot(i)
              IN  /\ indirect[i].first_instance = i - 1
                  /\ e \in DOMAIN instances
                  /\ indirect[i].vertex_count = 6 * instances[e].num_points
                  /\ batched_instance_buffer[i].world_from_local
                         = to_transpose(instances[e].world_from_local)
                  /\ batched_instance_buffer[i].previous_world_from_local
                         = to_transpose(instances[e].previous_world_from_local)
                  /\ instances[e].world_from_local = Affine3(transform[e])

\* C23 witness: batching has run over a phase that holds an entry of an
\* object that has left the registry, and has filled two slots or more, one
\* of them for an object that was moved.
C23_Witness ==
    /\ Batched
    /\ MissingEntries # {}
    /\ Len(indirect) >= 2
    /\ \E i \in DOMAIN batched_instance_buffer :
          batched_instance_buffer[i].world_from_local # to_transpose(Affine3(Identity))

\* ---------------------------------------------------------- stage order
\* A system of the assemble stage runs in this step: queue_point_clouds,
\* queue_material_point_clouds, the batching, write_point_cloud_indirect.
AssembleStep ==
    /\ frameStage \in {"queue", "queue_material", "prepare", "batched"}
    /\ frameStage' # frameStage

\* upload_point_clouds takes a pending upload in this step.
SyncStep == stage = "upload" /\ pending' # pending /\ Len(pending') < Len(pending)

\* The views' passes run in this step.
RenderStep == frameStage = "render" /\ frameStage' = "cleanup"

\* C24: within a frame the stages run in the order reconcile, sync,
\* assemble, render, and no stage starts before the stage before it has
\* finished: upload runs after extract, the queueing and batching of draw
\* entries and the writing of the buffers run after upload has drained its
\* queue, and the passes run after the buffers are written.
C24_StagesRunInOrder ==
    [][/\ SyncStep => frameStage # "render" /\ frameStage # "cleanup"
       /\ AssembleStep => stage = "update"
       /\ RenderStep => stage = "update" /\ indirect = << >>
      ]_vars

\* ------------------------------------------------------- writes to the arena
\* The sample slots of the buffer whose bytes this step changes.
WrittenSlots == {s \in DOMAIN point_buffer : point_buffer'[s] # point_buffer[s]}

\* The sample slots of the allocation l.
SlotsOf(l) == {s \in DOMAIN point_buffer : l.offset <= s /\ s < l.offset + l.len}

\* C25: point data in the arena is never modified in place: a step of the
\* upload writes only into the allocation it has obtained in that step,
\* after the object's previous allocation has been freed, and never into
\* an allocation that was live before the step and still is.
C25_UploadWritesOnlyNewAllocation ==
    [][(stage = "upload" /\ point_buffer' # point_buffer) =>
          LET e == Head(pending).entity
              old == instances[e].allocation
          IN  /\ e \in DOMAIN instances'
              /\ instances'[e].allocation.some
              /\ old.some => \A l \in live' : l \in live => l.metadata # old.metadata
              /\ WrittenSlots \subseteq
                     SlotsOf(LiveEntry(live', instances'[e].allocation.metadata))
              /\ \A l \in live \cap live' : WrittenSlots \cap SlotsOf(l) = {}
      ]_vars

\* ------------------------------------------------------- entries per frame
\* The assemble stage of the frame is about to start: extract has run and
\* queue_point_clouds has not.
AssembleStarts == frameStage = "queue"

\* C26: draw entries are rebuilt every frame and never carried over: when
\* the assemble stage of a frame starts, the entry list of every active
\* view, the list of draw descriptors and the uniform buffer hold no entry
\* of the frame before.
C26_NoEntryCarriedOver ==
    AssembleStarts =>
        /\ \A v \in ExtractedViews :
              /\ v \in DOMAIN transparent_phases
              /\ transparent_phases[v].items = << >>
              /\ transparent_phases[v].batch_sets = << >>
        /\ indirect = << >>
        /\ batched_instance_buffer = << >>

\* C26 witness: a frame starts to assemble for a view and a registry that
\* is not empty, after a frame whose descriptors were written to the device,
\* while the phase of a camera that was switched off still holds entries.
C26_Witness ==
    /\ AssembleStarts
    /\ ExtractedViews # {}
    /\ DOMAIN instances # {}
    /\ indirect_buffer # << >>
    /\ \E v \in DOMAIN transparent_phases :
          cameras[v] = "inactive" /\ transparent_phases[v].items # << >>

\* ---------------------------------------------------------- snapshots
\* C27: a point sequence that the render world still references is never
\* mutated by the producer: scan and clear_scan change a copy of their own
\* whenever another reference exists, so a pending snapshot's contents are
\* at upload time what they were at reconcile time.
C27_PendingSnapshotNeverMutated ==
    \A i \in DOMAIN pendingArcs :
        /\ arcs[pendingArcs[i].points].strong >= 1
        /\ arcs[pendingArcs[i].points].data = pendingArcs[i].seen

\* C27 witness: a snapshot with a point is pending while the producer has
\* cleared the sequence of the same entity, in an allocation of its own.
C27_Witness ==
    \E i \in DOMAIN pendingArcs :
        LET e == pendingArcs[i].entity
        IN  /\ pendingArcs[i].seen # << >>
            /\ pointsArc[e] # pendingArcs[i].points
            /\ arcs[pointsArc[e]].data = << >>

\* ------------------------------------------------- held allocations
\* The allocation a is live in the arena: allocate has returned it and it
\* has not been freed since.
IsLive(a) ==
    /\ \E l \in live : l.metadata = a.metadata /\ l.offset = a.offset
    /\ \E r \in UsedRegions(allocator) : r.id = a.metadata /\ r.offset = a.offset

\* Every allocation a record holds is live and no other record holds it.
HeldAllocationsLive ==
    \A e \in DOMAIN instances :
        instances[e].allocation.some =>
            /\ IsLive(instances[e].allocation)
            /\ \A o \in DOMAIN instances \ {e} :
                   instances[o].allocation.some =>
                       instances[o].allocation.metadata # instances[e].allocation.metadata

\* A step of the upload that frees the allocation its record held.
FreeStep ==
    /\ stage = "upload" /\ pending # << >> /\ pending' = Tail(pending)
    /\ Head(pending).entity \in DOMAIN instances
    /\ instances[Head(pending).entity].allocation.some

\* C28: at every stage boundary each allocation held by an instance record
\* is live in the arena and held by no other record; the upload never frees
\* an allocation and leaves it referenced by a record, and never frees an
\* allocation twice.
C28_HeldAllocationsAreLive ==
    /\ []HeldAllocationsLive
    /\ [][FreeStep =>
             LET e == Head(pending).entity
                 old == instances[e].allocation
             IN  /\ IsLive(old)
                 /\ \A o \in DOMAIN instances \ {e} :
                        /\ o \in DOMAIN instances'
                        /\ instances'[o].allocation = instances[o].allocation
                        /\ instances[o].allocation.some =>
                               instances[o].allocation.metadata # old.metadata
                 /\ (~instances'[e].allocation.some) => ~(\E l \in live' : l.metadata = old.metadata)
        ]_vars

\* C28 witness: the upload stage has ended after a step that freed and
\* replaced one record's allocation, with another record holding a live
\* allocation with points.
C28_Witness ==
    /\ UploadStageDone
    /\ lastUpload.op = "reallocated"
    /\ lastUpload.oldLen > 0
    /\ \E o \in DOMAIN instances :
          /\ o # lastUpload.entity
          /\ instances[o].allocation.some
          /\ LiveEntry(live, instances[o].allocation.metadata).len > 0

\* ----------------------------------------------------------- byte ranges
\* C29: the byte ranges of the point buffer written for any two distinct
\* live allocations are disjoint, and every upload write lies within the
\* buffer's capacity * 16 bytes.
C29_UploadByteRangesDisjoint ==
    /\ \A l \in live :
          LET w == WrittenBytes(l, l.data)
          IN  w.offset >= 0 /\ w.offset + w.bytes <= Capacity * SampleBytes
    /\ \A l1, l2 \in live :
          l1 # l2 =>
              LET w1 == WrittenBytes(l1, l1.data)
                  w2 == WrittenBytes(l2, l2.data)
              IN  Disjoint(w1.offset, w1.bytes, w2.offset, w2.bytes)

\* ------------------------------------------------- back into view
\* upload_point_clouds takes the first pending upload in this step.
DrainStep == stage = "upload" /\ pending # << >> /\ pending' = Tail(pending)

\* C30: an object whose point sequence changed while it had no record is,
\* in the first frame in which it is visible again, queued and uploaded
\* with its latest point sequence, whether or not the sequence changed in
\* that frame; and a pending upload whose entity has no record is skipped
\* without allocating or freeing anything.
C30_BackInViewUploadsLatestPoints ==
    [][/\ Reconcile =>
             \A e \in VisibleObjects \ DOMAIN instances :
                 \E i \in DOMAIN pending' :
                     pending'[i].entity = e /\ pending'[i].points = points[e]
       /\ DrainStep =>
             LET item == Head(pending)
                 e == item.entity
             IN  IF e \notin DOMAIN instances
                 THEN /\ allocator' = allocator
                      /\ live' = live
                      /\ point_buffer' = point_buffer
                      /\ instances' = instances
                      /\ ~panicked'
                 ELSE ~panicked' =>
                          /\ item.points = points[e]
                          /\ instances'[e].allocation.some
                          /\ LiveEntry(live', instances'[e].allocation.metadata).data = points[e]
      ]_vars

\* C30 witness: an object that was uploaded, went out of view and had its
\* sequence changed has come back and been given an allocation with the
\* sequence it has now; the range of its earlier points is still in the arena.
C30_Witness ==
    /\ stage = "upload"
    /\ lastUpload.op = "allocated"
    /\ lastUpload.entity \in DOMAIN instances
    /\ LET e == lastUpload.entity
       IN  /\ instances[e].allocation.some
           /\ LiveEntry(live, instances[e].allocation.metadata).data = points[e]
           /\ \E l \in Leaked \cap AllocationsOf(e) : l.data # points[e]
====
